---------------------------- MODULE Spec2Model ----------------------------
(***************************************************************************)
(* A model of yara_rule_tester.py: one run of the script, from the parsing *)
(* of the optional command-line arguments to the end of                    *)
(* scan_sqlite_database.                                                   *)
(*                                                                         *)
(* Texts the script changes the case of (proxy labels, the flag= value,    *)
(* the arguments themselves) are sequences of ASCII codes, so that         *)
(* str.lower(), str.upper(), str.startswith() and str.split() are computed *)
(* character by character.  Texts the script only compares or hands to the *)
(* pattern engine (payloads, addresses, rule paths) are TLA+ strings,      *)
(* whose equality is exact and case-sensitive like Python's.               *)
(***************************************************************************)
EXTENDS Integers, Sequences, FiniteSets, TLC

(***************************************************************************)
(* Bounds of the model.                                                    *)
(***************************************************************************)
MaxIdentities == 2      \* entries in the configuration's proxies list
MaxRows == 2            \* rows in the ssl_logs table
MaxCount == 3           \* a counter at the end of a pass, where the metrics alone are checked

(***************************************************************************)
(* Python values.                                                          *)
(***************************************************************************)
\* Python's None where a text made of ASCII codes is expected: no argument
\* can hold a NUL, so the value is distinct from every text.
None == <<0>>
\* SQL NULL (Python's None) in the headers column, distinct from every text.
NullText == "<NULL>"

\* "if x:" on a text made of ASCII codes or None
Truthy(x) == x # None /\ x # <<>>

\* str.lower() on ASCII
Lower(s) == [k \in DOMAIN s |-> IF s[k] \in 65..90 THEN s[k] + 32 ELSE s[k]]

\* str.upper() on ASCII
Upper(s) == [k \in DOMAIN s |-> IF s[k] \in 97..122 THEN s[k] - 32 ELSE s[k]]

\* str.startswith(prefix)
StartsWith(s, prefix) ==
    /\ Len(s) >= Len(prefix)
    /\ SubSeq(s, 1, Len(prefix)) = prefix

\* the positions of "=" in s
EqPositions(s) == {k \in DOMAIN s : s[k] = 61}

Min(S) == CHOOSE x \in S : \A y \in S : x <= y

\* s.split("=")[1] for an s that holds at least one "="
SplitEq1(s) ==
    LET first == Min(EqPositions(s))
        later == {k \in EqPositions(s) : k > first}
        stop == IF later = {} THEN Len(s) + 1 ELSE Min(later)
    IN  SubSeq(s, first + 1, stop - 1)

(***************************************************************************)
(* The texts of the model.                                                 *)
(***************************************************************************)
ArgVerbose == <<45, 118>>                       \* "-v"
PrefixFlag == <<102, 108, 97, 103, 61>>         \* "flag="
PrefixProxy == <<112, 114, 111, 120, 121, 61>>  \* "proxy="

FlagTP == <<84, 80>>    \* "TP"
FlagFP == <<70, 80>>    \* "FP"
FlagTN == <<84, 78>>    \* "TN"
FlagFN == <<70, 78>>    \* "FN"
Flags == {FlagTP, FlagFP, FlagTN, FlagFN}

\* flag=<value> arguments: "tp", "FP", "Tn", "fn"
FlagArgs == {PrefixFlag \o v : v \in {<<116, 112>>, <<70, 80>>, <<84, 110>>, <<102, 110>>}}

ProxyEmpty == PrefixProxy            \* "proxy="
ProxyLowerA == PrefixProxy \o <<97>>  \* "proxy=a"

LabelA == <<65>>            \* "A"
LabelAb == <<97, 98>>       \* "ab"
LabelB == <<98>>            \* "b"

\* sys.argv[3:]: every setting of -v and flag= without a proxy filter, and
\* the proxy filters alone, after a flag= and before an overriding proxy=
Argvs ==
    {v \o f : v \in {<<>>, <<ArgVerbose>>}, f \in {<<>>} \cup {<<a>> : a \in FlagArgs}}
        \cup {<<ProxyEmpty>>, <<ProxyLowerA>>,
              <<ArgVerbose, PrefixFlag \o <<116, 112>>, ProxyLowerA>>,
              <<ProxyLowerA, PrefixProxy \o <<98, 61, 97>>>>}

(***************************************************************************)
(* The pattern engine (yara), as the script uses it: compiling a path      *)
(* gives a matcher or raises; a matcher applied to a text gives the list   *)
(* of its rules that match.                                                *)
(***************************************************************************)
TextVia == "Via: 1.1 squid"
TextViaDirect == "Via: 1.1 squid; X-Direct: 1"

\* yara.compile(filepath=path): the rules of the file, or the error raised
Compile(path) ==
    CASE path = "via.yar" ->
           [error |-> "none",
            rules |-> <<[name |-> "via", texts |-> {TextVia, TextViaDirect}],
                        [name |-> "via11", texts |-> {TextVia}]>>]
      [] path = "squid.yar" ->
           [error |-> "none",
            rules |-> <<[name |-> "squid", texts |-> {TextVia}]>>]
      [] path = "direct.yar" ->
           [error |-> "none",
            rules |-> <<[name |-> "direct", texts |-> {TextViaDirect}]>>]
      [] path = "broken.yar" -> [error |-> "SyntaxError", rules |-> <<>>]
      [] OTHER -> [error |-> "Error", rules |-> <<>>]

\* rule.match(data=text): the names of the rules of the matcher that match
Match(rule, text) ==
    LET hit == SelectSeq(rule, LAMBDA p : text \in p.texts)
    IN  [k \in DOMAIN hit |-> hit[k].name]

RECURSIVE scan_text(_, _)
scan_text(rules, text) ==
    IF rules = <<>> THEN <<>>
    ELSE Match(Head(rules), text) \o scan_text(Tail(rules), text)

\* load_yara_rules with "continue" in place of the two sys.exit(1)
RECURSIVE load_yara_rules_SkipsBroken(_)
load_yara_rules_SkipsBroken(paths) ==
    IF paths = <<>> THEN [exit |-> FALSE, rules |-> <<>>, loaded |-> <<>>]
    ELSE LET c == Compile(Head(paths))
             rest == load_yara_rules_SkipsBroken(Tail(paths))
         IN  [exit |-> FALSE,
              rules |-> IF c.error # "none" THEN rest.rules ELSE <<c.rules>> \o rest.rules,
              loaded |-> <<Head(paths)>> \o rest.loaded]

\* load_yara_rules: the matchers of the paths in order; the first path that
\* fails to compile ends the run (sys.exit(1)) and nothing is returned
RECURSIVE load_yara_rules(_)
load_yara_rules(paths) ==
    IF paths = <<>> THEN [exit |-> FALSE, rules |-> <<>>, loaded |-> <<>>]
    ELSE LET c == Compile(Head(paths))
         IN  IF c.error # "none"
             THEN [exit |-> TRUE, rules |-> <<>>, loaded |-> <<Head(paths)>>]
             ELSE LET rest == load_yara_rules(Tail(paths))
                  IN  [exit |-> rest.exit,
                       rules |-> IF rest.exit THEN <<>> ELSE <<c.rules>> \o rest.rules,
                       loaded |-> <<Head(paths)>> \o rest.loaded]


(***************************************************************************)
(* The configuration file, as yaml.safe_load returns it: a mapping is a    *)
(* function whose domain is the keys it has.                               *)
(***************************************************************************)
HasKey(m, k) == k \in DOMAIN m

AddrLower == "fe80::a"
AddrUpper == "fe80::A"
AddrOther == "1.2.3.4"

EntryA ==
    [proxy |-> LabelA, ip |-> AddrLower,
     yara_ruleset |-> [should_be_true |-> <<"via.yar", "squid.yar">>,
                       should_be_false |-> <<"direct.yar">>]]

\* no should_be_false key
EntryAb ==
    [proxy |-> LabelAb, ip |-> AddrUpper,
     yara_ruleset |-> [should_be_true |-> <<"squid.yar">>]]

\* no should_be_true key
EntryNoTrue ==
    [proxy |-> LabelB, ip |-> AddrOther,
     yara_ruleset |-> [should_be_false |-> <<"direct.yar">>]]

\* a negative pattern file that does not compile
EntryBroken ==
    [proxy |-> LabelB, ip |-> AddrOther,
     yara_ruleset |-> [should_be_true |-> <<"via.yar">>,
                       should_be_false |-> <<"broken.yar">>]]

ProxyEntries == {EntryA, EntryAb, EntryNoTrue, EntryBroken}

\* an entry without its ip key
EntryNoIp == [proxy |-> LabelB, yara_ruleset |-> [should_be_true |-> <<"via.yar">>]]

SeqsUpTo(S, n) == UNION {[1..k -> S] : k \in 0..n}

\* a file without the proxies key, a file whose entry lacks a key that
\* parse_config reads, and the files of up to MaxIdentities entries
Configs ==
    {[rules |-> <<>>], [proxies |-> <<EntryNoIp>>]}
        \cup {[proxies |-> ps] : ps \in SeqsUpTo(ProxyEntries, MaxIdentities)}

\* parse_config: the three parallel lists, or the KeyError of the first key
\* that is missing
RECURSIVE ParseEntries(_)
ParseEntries(proxy_entries) ==
    IF proxy_entries = <<>>
    THEN [error |-> "none", ips |-> <<>>, proxies |-> <<>>, rules |-> <<>>]
    ELSE LET proxy == Head(proxy_entries)
         IN  IF ~ HasKey(proxy, "ip") \/ ~ HasKey(proxy, "proxy")
                \/ ~ HasKey(proxy, "yara_ruleset")
             THEN [error |-> "KeyError", ips |-> <<>>, proxies |-> <<>>, rules |-> <<>>]
             ELSE LET rest == ParseEntries(Tail(proxy_entries))
                  IN  IF rest.error # "none" THEN rest
                      ELSE [error |-> "none",
                            ips |-> <<proxy.ip>> \o rest.ips,
                            proxies |-> <<proxy.proxy>> \o rest.proxies,
                            rules |-> <<proxy.yara_ruleset>> \o rest.rules]

parse_config(cfg) ==
    IF ~ HasKey(cfg, "proxies")
    THEN [error |-> "KeyError", ips |-> <<>>, proxies |-> <<>>, rules |-> <<>>]
    ELSE ParseEntries(cfg.proxies)

(***************************************************************************)
(* The record store: the rows of ssl_logs (headers, ip), or a database     *)
(* that sqlite3 cannot read.                                               *)
(***************************************************************************)
Records ==
    { [headers |-> TextVia, ip |-> AddrLower],
      [headers |-> TextViaDirect, ip |-> AddrLower],
      [headers |-> "", ip |-> AddrLower],
      [headers |-> NullText, ip |-> AddrUpper] }

\* a database sqlite3 cannot read raises sqlite3.Error at connect/execute
Stores ==
    {[readable |-> FALSE, table |-> <<>>]}
        \cup {[readable |-> TRUE, table |-> t] : t \in SeqsUpTo(Records, MaxRows)}

\* "if headers_text is not None:"
HasPayload_NotNone(headers_text) == headers_text # NullText

\* "if headers_text:"
HasPayload(headers_text) == headers_text # NullText /\ headers_text # ""


(***************************************************************************)
(* Precision, recall and F1 are exact fractions <<numerator, denominator>> *)
(* with a positive denominator; the script computes them in floating       *)
(* point, which the model abstracts to the rational value.                 *)
(***************************************************************************)
Zero == <<0, 1>>

\* a / b for integers a >= 0, b > 0
Div(a, b) == <<a, b>>

\* line 114 without its "if (TP + FP) > 0"
Precision_Unguarded(tp, fp) == Div(tp, tp + fp)

\* line 114
Precision(tp, fp) == IF (tp + fp) > 0 THEN Div(tp, tp + fp) ELSE Zero

\* line 115
Recall(tp, fn) == IF (tp + fn) > 0 THEN Div(tp, tp + fn) ELSE Zero

\* line 116: 2 * (p * r) / (p + r) if (p + r) > 0 else 0
F1Score(p, r) ==
    LET sum == <<p[1] * r[2] + r[1] * p[2], p[2] * r[2]>>
        prod2 == <<2 * p[1] * r[1], p[2] * r[2]>>
    IN  IF sum[1] > 0 THEN <<prod2[1] * sum[2], prod2[2] * sum[1]>> ELSE Zero

(***************************************************************************)
(* The state of a run.                                                     *)
(***************************************************************************)
VARIABLES
    argv, config, store,                    \* the inputs of the run
    verbose, list_flag, specific_proxy,     \* the module's globals
    pc, exit_status, error,                 \* where the run is and how it ended
    ips, proxies, yara_rules_paths, rows,   \* locals of scan_sqlite_database
    i, rules_true, rules_false, n,
    total, total_from_proxy, total_not_from_proxy,
    fail, fail_from_proxy, fail_not_from_proxy,
    TP, FP, TN, FN, precision, recall, f1_score,
    started, loaded, scored, printed, reports    \* what the run did and printed

inputs == <<argv, config, store>>
globals == <<verbose, list_flag, specific_proxy>>
parsed == <<ips, proxies, yara_rules_paths>>
matchers == <<rules_true, rules_false>>
counters == <<total, total_from_proxy, total_not_from_proxy,
              fail, fail_from_proxy, fail_not_from_proxy>>
results == <<TP, FP, TN, FN, precision, recall, f1_score>>
vars == <<inputs, globals, pc, exit_status, error, parsed, rows, i, matchers, n,
          counters, results, started, loaded, scored, printed, reports>>

\* lines 71-76 left out: the counters keep the values of the pass before
StaleCounters ==
    [total |-> total, total_from_proxy |-> total_from_proxy,
     total_not_from_proxy |-> total_not_from_proxy,
     fail |-> fail, fail_from_proxy |-> fail_from_proxy,
     fail_not_from_proxy |-> fail_not_from_proxy]

\* the values the counters take at lines 71-76
FreshCounters ==
    [total |-> 0, total_from_proxy |-> 0, total_not_from_proxy |-> 0,
     fail |-> 0, fail_from_proxy |-> 0, fail_not_from_proxy |-> 0]

Init ==
    /\ argv \in Argvs
    /\ config \in Configs
    /\ store \in Stores
    /\ verbose = FALSE              \* line 6
    /\ list_flag = None             \* line 7
    /\ specific_proxy = None        \* line 8
    /\ pc = "args"
    /\ exit_status = -1             \* the process has not exited
    /\ error = "none"
    /\ ips = <<>> /\ proxies = <<>> /\ yara_rules_paths = <<>>
    /\ rows = <<>>
    /\ i = 0 /\ n = 0
    /\ rules_true = <<>> /\ rules_false = <<>>
    /\ total = 0 /\ total_from_proxy = 0 /\ total_not_from_proxy = 0
    /\ fail = 0 /\ fail_from_proxy = 0 /\ fail_not_from_proxy = 0
    /\ TP = 0 /\ FP = 0 /\ TN = 0 /\ FN = 0
    /\ precision = Zero /\ recall = Zero /\ f1_score = Zero
    /\ started = <<>>
    /\ loaded = <<>>
    /\ scored = {}
    /\ printed = {}
    /\ reports = <<>>

\* the process ends with status 1: sys.exit(1) or an uncaught exception
Exit(kind) ==
    /\ pc' = "exited"
    /\ exit_status' = 1
    /\ error' = kind

(***************************************************************************)
(* Lines 142-149: the loop over sys.argv[3:].                              *)
(***************************************************************************)
RECURSIVE ParseArgv(_, _)
ParseArgv(args, g) ==
    IF args = <<>> THEN g
    ELSE LET arg == Head(args)
             g2 == IF arg = ArgVerbose THEN [g EXCEPT !.verbose = TRUE]
                   ELSE IF StartsWith(arg, PrefixFlag)
                        THEN [g EXCEPT !.list_flag = Upper(SplitEq1(arg))]
                   ELSE IF StartsWith(arg, PrefixProxy)
                        THEN [g EXCEPT !.specific_proxy = SplitEq1(arg)]
                   ELSE g
         IN  ParseArgv(Tail(args), g2)

ParseArgs ==
    /\ pc = "args"
    /\ LET g == ParseArgv(argv, [verbose |-> verbose, list_flag |-> list_flag,
                                 specific_proxy |-> specific_proxy])
       IN  /\ verbose' = g.verbose
           /\ list_flag' = g.list_flag
           /\ specific_proxy' = g.specific_proxy
    /\ pc' = "config"
    /\ UNCHANGED <<inputs, exit_status, error, parsed, rows, i, matchers, n,
                   counters, results, started, loaded, scored, printed, reports>>

(***************************************************************************)
(* Line 55: parse_config.  A KeyError is not caught: the run ends.         *)
(***************************************************************************)
ParseConfig ==
    /\ pc = "config"
    /\ LET c == parse_config(config)
       IN  IF c.error # "none"
           THEN /\ Exit(c.error)
                /\ UNCHANGED parsed
           ELSE /\ ips' = c.ips
                /\ proxies' = c.proxies
                /\ yara_rules_paths' = c.rules
                /\ pc' = "connect"
                /\ UNCHANGED <<exit_status, error>>
    /\ UNCHANGED <<inputs, globals, rows, i, matchers, n, counters, results,
                   started, loaded, scored, printed, reports>>

(***************************************************************************)
(* Lines 57-62 and 132-134: connect and fetch every row; sqlite3.Error is  *)
(* caught, printed and the run ends with sys.exit(1).                      *)
(***************************************************************************)
FetchRows ==
    /\ pc = "connect"
    /\ IF ~ store.readable
       THEN /\ Exit("sqlite3.Error")
            /\ UNCHANGED <<rows, i>>
       ELSE /\ rows' = store.table
            /\ i' = 1
            /\ pc' = "identity"
            /\ UNCHANGED <<exit_status, error>>
    /\ UNCHANGED <<inputs, globals, parsed, matchers, n, counters, results,
                   started, loaded, scored, printed, reports>>


(***************************************************************************)
(* Lines 64-66: the head of the loop over the identities.  i counts from 1 *)
(* (the script's i plus one).                                              *)
(***************************************************************************)
\* line 65 without its two calls of lower()
Skips_CaseSensitive(proxy, sp) == Truthy(sp) /\ proxy # sp

\* line 65: the condition of the continue
Skips(proxy, sp) == Truthy(sp) /\ Lower(proxy) # Lower(sp)

SkipIdentity ==
    /\ pc = "identity"
    /\ i <= Len(yara_rules_paths)
    /\ Skips(proxies[i], specific_proxy)
    /\ i' = i + 1
    /\ UNCHANGED <<inputs, globals, pc, exit_status, error, parsed, rows, matchers,
                   n, counters, results, started, loaded, scored, printed, reports>>

(***************************************************************************)
(* Lines 68-76: load the two pattern sets of identity i, then set its      *)
(* counters to zero.  started gets the identity at the print of line 68,   *)
(* loaded every path handed to yara.compile.                               *)
(***************************************************************************)
Tag(k, paths) == [j \in DOMAIN paths |-> <<k, paths[j]>>]

\* the exception class of a compile error
YaraError(paths) == "yara." \o Compile(paths[Len(paths)]).error

BeginIdentity ==
    /\ pc = "identity"
    /\ i <= Len(yara_rules_paths)
    /\ ~ Skips(proxies[i], specific_proxy)
    /\ started' = Append(started, i)
    /\ LET ruleset_paths == yara_rules_paths[i]
       IN  IF ~ HasKey(ruleset_paths, "should_be_true")
           THEN /\ Exit("KeyError")
                /\ UNCHANGED <<matchers, n, counters, loaded>>
           ELSE LET t == load_yara_rules(ruleset_paths.should_be_true)
                    f == load_yara_rules(IF HasKey(ruleset_paths, "should_be_false")
                                         THEN ruleset_paths.should_be_false
                                         ELSE <<>>)
                IN  IF t.exit
                    THEN /\ Exit(YaraError(t.loaded))
                         /\ loaded' = loaded \o Tag(i, t.loaded)
                         /\ UNCHANGED <<matchers, n, counters>>
                    ELSE IF f.exit
                    THEN /\ Exit(YaraError(f.loaded))
                         /\ loaded' = loaded \o Tag(i, t.loaded) \o Tag(i, f.loaded)
                         /\ rules_true' = t.rules
                         /\ UNCHANGED <<rules_false, n, counters>>
                    ELSE /\ loaded' = loaded \o Tag(i, t.loaded) \o Tag(i, f.loaded)
                         /\ rules_true' = t.rules
                         /\ rules_false' = f.rules
                         /\ total' = FreshCounters.total
                         /\ total_from_proxy' = FreshCounters.total_from_proxy
                         /\ total_not_from_proxy' = FreshCounters.total_not_from_proxy
                         /\ fail' = FreshCounters.fail
                         /\ fail_from_proxy' = FreshCounters.fail_from_proxy
                         /\ fail_not_from_proxy' = FreshCounters.fail_not_from_proxy
                         /\ n' = 1
                         /\ pc' = "scan"
                         /\ UNCHANGED <<exit_status, error>>
    /\ UNCHANGED <<inputs, globals, parsed, rows, i, results, scored, printed, reports>>

(***************************************************************************)
(* Lines 77-106: one row of the pass.                                      *)
(***************************************************************************)
\* line 81 without its "and not matches_false"
IsDetected_IgnoresNegative(matches_true, matches_false) == matches_true # <<>>

\* line 81: "if matches_true and not matches_false"
IsDetected(matches_true, matches_false) ==
    matches_true # <<>> /\ ~ (matches_false # <<>>)

\* print_list without the test of line 47
print_list_Always(flag, lf) == TRUE

\* line 47: the condition of print_list's print
print_list(flag, lf) == lf = flag

\* lines 81-105 with the test of line 95 turned around
Branch_WrongNegativeRow(detected, ip_text, ip) ==
    IF detected
    THEN IF ip_text # ip THEN FlagFP ELSE FlagTP
    ELSE IF ip_text # ip THEN FlagFN ELSE FlagTN

\* the branch of lines 81-105 a row with a payload takes, named by the flag
\* the branch hands to print_list
Branch(detected, ip_text, ip) ==
    IF detected
    THEN IF ip_text # ip THEN FlagFP ELSE FlagTP
    ELSE IF ip_text = ip THEN FlagFN ELSE FlagTN

ScanRow ==
    /\ pc = "scan"
    /\ n <= Len(rows)
    /\ LET headers_text == rows[n].headers
           ip_text == rows[n].ip
       IN  IF HasPayload(headers_text)
           THEN LET matches_true == scan_text(rules_true, headers_text)
                    matches_false == scan_text(rules_false, headers_text)
                    detected == IsDetected(matches_true, matches_false)
                    b == Branch(detected, ip_text, ips[i])
                IN  /\ fail' = IF b \in {FlagFP, FlagFN} THEN fail + 1 ELSE fail
                    /\ fail_not_from_proxy' =
                          IF b = FlagFP THEN fail_not_from_proxy + 1
                          ELSE fail_not_from_proxy
                    /\ total_not_from_proxy' =
                          IF b \in {FlagFP, FlagTN} THEN total_not_from_proxy + 1
                          ELSE total_not_from_proxy
                    /\ total_from_proxy' =
                          IF b \in {FlagTP, FlagFN} THEN total_from_proxy + 1
                          ELSE total_from_proxy
                    /\ fail_from_proxy' =
                          IF b = FlagFN THEN fail_from_proxy + 1 ELSE fail_from_proxy
                    /\ scored' = scored \cup
                          {[i |-> i, row |-> n, positive |-> detected, cell |-> b]}
                    /\ printed' = printed
                          \cup (IF verbose /\ b # FlagTN
                                THEN {[by |-> "verbose", cell |-> b, i |-> i, row |-> n]}
                                ELSE {})
                          \cup (IF print_list(b, list_flag)
                                THEN {[by |-> "list", cell |-> b, i |-> i, row |-> n]}
                                ELSE {})
           ELSE UNCHANGED <<total_from_proxy, total_not_from_proxy, fail,
                            fail_from_proxy, fail_not_from_proxy, scored, printed>>
    /\ total' = total + 1
    /\ n' = n + 1
    /\ UNCHANGED <<inputs, globals, pc, exit_status, error, parsed, rows, i, matchers,
                   results, started, loaded, reports>>

(***************************************************************************)
(* Lines 108-116: the matrix and the metrics of the pass that ended.       *)
(***************************************************************************)
CellTP(from_proxy, failed_from_proxy) == from_proxy - failed_from_proxy
CellFP(failed_not_from_proxy) == failed_not_from_proxy
CellTN(not_from_proxy, failed_not_from_proxy) == not_from_proxy - failed_not_from_proxy
CellFN(failed_from_proxy) == failed_from_proxy

Finalize ==
    /\ pc = "scan"
    /\ n > Len(rows)
    /\ TP' = CellTP(total_from_proxy, fail_from_proxy)
    /\ FP' = CellFP(fail_not_from_proxy)
    /\ TN' = CellTN(total_not_from_proxy, fail_not_from_proxy)
    /\ FN' = CellFN(fail_from_proxy)
    /\ precision' = Precision(TP', FP')
    /\ recall' = Recall(TP', FN')
    /\ f1_score' = F1Score(precision', recall')
    /\ pc' = "report"
    /\ UNCHANGED <<inputs, globals, exit_status, error, parsed, rows, i, matchers, n,
                   counters, started, loaded, scored, printed, reports>>

(***************************************************************************)
(* Lines 119-129: the report of identity i.  With no row in the table      *)
(* total is 0 and the first percentage (line 121) raises                   *)
(* ZeroDivisionError, which nothing catches.  The report is recorded with  *)
(* its exact values; the rounding to two decimals is not modelled.         *)
(***************************************************************************)
Report ==
    /\ pc = "report"
    /\ IF total = 0
       THEN /\ Exit("ZeroDivisionError")
            /\ UNCHANGED <<i, reports>>
       ELSE /\ reports' = Append(reports,
                  [i |-> i, total |-> total,
                   TP |-> TP, FP |-> FP, TN |-> TN, FN |-> FN,
                   percent |-> <<Div(100 * TP, total), Div(100 * FP, total),
                                 Div(100 * TN, total), Div(100 * FN, total)>>,
                   precision |-> precision, recall |-> recall,
                   f1_score |-> f1_score])
            /\ i' = i + 1
            /\ pc' = "identity"
            /\ UNCHANGED <<exit_status, error>>
    /\ UNCHANGED <<inputs, globals, parsed, rows, matchers, n, counters, results,
                   started, loaded, scored, printed>>

(***************************************************************************)
(* Line 131: the loop is over; the script ends with status 0.              *)
(***************************************************************************)
Close ==
    /\ pc = "identity"
    /\ i > Len(yara_rules_paths)
    /\ pc' = "done"
    /\ exit_status' = 0
    /\ UNCHANGED <<inputs, globals, error, parsed, rows, i, matchers, n, counters,
                   results, started, loaded, scored, printed, reports>>

Next ==
    \/ ParseArgs
    \/ ParseConfig
    \/ FetchRows
    \/ SkipIdentity
    \/ BeginIdentity
    \/ ScanRow
    \/ Finalize
    \/ Report
    \/ Close

Spec == Init /\ [][Next]_vars


(***************************************************************************)
(* What the specification expects of identity k and row m of the table,    *)
(* stated on the configuration file and the store alone.                   *)
(***************************************************************************)
PositivePaths(k) == config.proxies[k].yara_ruleset.should_be_true

NegativePaths(k) ==
    IF "should_be_false" \in DOMAIN config.proxies[k].yara_ruleset
    THEN config.proxies[k].yara_ruleset.should_be_false
    ELSE <<>>

\* some pattern of some file of paths matches text
SomePatternMatches(paths, text) ==
    \E j \in DOMAIN paths :
        LET patterns == Compile(paths[j]).rules
        IN  \E q \in DOMAIN patterns : text \in patterns[q].texts

ExpectedPositive(k, m) ==
    /\ SomePatternMatches(PositivePaths(k), store.table[m].headers)
    /\ ~ SomePatternMatches(NegativePaths(k), store.table[m].headers)

EmptyOrAbsent(m) == store.table[m].headers \in {"", NullText}

Belongs(k, m) == store.table[m].ip = config.proxies[k].ip

\* the table of the scorer
ExpectedCell(k, m) ==
    IF ExpectedPositive(k, m)
    THEN IF Belongs(k, m) THEN FlagTP ELSE FlagFP
    ELSE IF Belongs(k, m) THEN FlagFN ELSE FlagTN

\* the rows among the first m of the table that fall in cell c for identity k
RowsInCell(k, m, c) ==
    {r \in 1..m : ~ EmptyOrAbsent(r) /\ ExpectedCell(k, r) = c}

ExpectedCount(k, m, c) == Cardinality(RowsInCell(k, m, c))

\* the rows of the pass of identity i that line 106 has counted
Counted == IF pc = "scan" THEN n - 1 ELSE Len(rows)

InPass == pc \in {"scan", "report"}

(***************************************************************************)
(* C1: for every record with a non-empty payload and every identity whose  *)
(* pass reaches it, the outcome is Positive exactly when at least one      *)
(* positive pattern matches the payload and no negative pattern matches    *)
(* it, and Negative in every other case.                                   *)
(***************************************************************************)
C1_OutcomeRule ==
    /\ \A e \in scored :
          /\ ~ EmptyOrAbsent(e.row)
          /\ e.positive <=> ExpectedPositive(e.i, e.row)
    /\ InPass =>
          \A m \in 1..Counted :
              ~ EmptyOrAbsent(m) => \E e \in scored : e.i = i /\ e.row = m

\* one run held a Positive, a Negative forced by a negative pattern and a
\* Negative for want of a positive pattern
C1_Witness ==
    /\ \E e \in scored : e.positive
    /\ \E e \in scored :
          /\ ~ e.positive
          /\ SomePatternMatches(PositivePaths(e.i), store.table[e.row].headers)
          /\ SomePatternMatches(NegativePaths(e.i), store.table[e.row].headers)
    /\ \E e \in scored :
          /\ ~ e.positive
          /\ ~ SomePatternMatches(PositivePaths(e.i), store.table[e.row].headers)

(***************************************************************************)
(* C2: every record with a non-empty payload adds exactly 1 to exactly one *)
(* cell, the one the table names (Positive and same address: TP; Positive  *)
(* and other address: FP; Negative and same address: FN; Negative and      *)
(* other address: TN; addresses compared exactly), so that the cells       *)
(* derived from the counters, and the final TP, FP, TN, FN, are the        *)
(* numbers of records that fell in each case.                              *)
(***************************************************************************)
C2_CellRule ==
    /\ \A e \in scored : e.cell = ExpectedCell(e.i, e.row)
    /\ InPass =>
          /\ total_from_proxy - fail_from_proxy = ExpectedCount(i, Counted, FlagTP)
          /\ fail_not_from_proxy = ExpectedCount(i, Counted, FlagFP)
          /\ total_not_from_proxy - fail_not_from_proxy
                = ExpectedCount(i, Counted, FlagTN)
          /\ fail_from_proxy = ExpectedCount(i, Counted, FlagFN)
    /\ pc = "report" =>
          /\ TP = ExpectedCount(i, Len(store.table), FlagTP)
          /\ FP = ExpectedCount(i, Len(store.table), FlagFP)
          /\ TN = ExpectedCount(i, Len(store.table), FlagTN)
          /\ FN = ExpectedCount(i, Len(store.table), FlagFN)

\* two passes ended, one with a TP and an FN, one with an FP and a TN (the
\* FP and the TN by the case of a letter of the address alone)
C2_Witness ==
    /\ pc = "report"
    /\ FP = 1 /\ TN = 1
    /\ Len(reports) = 1
    /\ reports[1].TP = 1 /\ reports[1].FN = 1
    /\ \A m \in DOMAIN rows : rows[m].ip = AddrLower
    /\ ips[i] = AddrUpper

(***************************************************************************)
(* C3: throughout a pass and at its end the four cells are non-negative    *)
(* and add up to the number of records with a non-empty payload processed  *)
(* so far; a record with an empty or absent payload adds 1 to total and    *)
(* nothing to a cell; at the end total is the number of stored records.    *)
(***************************************************************************)
C3_CellSum ==
    /\ InPass =>
          LET tp == total_from_proxy - fail_from_proxy
              tn == total_not_from_proxy - fail_not_from_proxy
              empties == Cardinality({m \in 1..Counted : EmptyOrAbsent(m)})
          IN  /\ tp >= 0 /\ tn >= 0
              /\ fail_not_from_proxy >= 0 /\ fail_from_proxy >= 0
              /\ total = Counted
              /\ tp + fail_not_from_proxy + tn + fail_from_proxy = total - empties
    /\ pc = "report" =>
          /\ TP >= 0 /\ FP >= 0 /\ TN >= 0 /\ FN >= 0
          /\ total = Len(store.table)
          /\ TP + FP + TN + FN
                = total - Cardinality({m \in DOMAIN store.table : EmptyOrAbsent(m)})

\* a pass ended on a table of a scored record and a record whose payload
\* is empty or absent
C3_Witness ==
    /\ pc = "report"
    /\ \E m \in DOMAIN rows : rows[m].headers \in {"", NullText}
    /\ TP + FP + TN + FN = 1
    /\ total = 2


(***************************************************************************)
(* The metrics alone: lines 108-116 applied to the counters a pass over    *)
(* some table can end with (each fail_ counter at most its total_          *)
(* counter), up to MaxCount records from the proxy and MaxCount not from   *)
(* it.  The table itself is not part of these states.                      *)
(***************************************************************************)
InitMetrics ==
    /\ argv = <<>>
    /\ config = [proxies |-> <<EntryA>>]
    /\ store = [readable |-> TRUE, table |-> <<>>]
    /\ verbose = FALSE /\ list_flag = None /\ specific_proxy = None
    /\ pc = "scan"
    /\ exit_status = -1
    /\ error = "none"
    /\ ips = <<EntryA.ip>> /\ proxies = <<EntryA.proxy>>
    /\ yara_rules_paths = <<EntryA.yara_ruleset>>
    /\ rows = <<>>
    /\ i = 1 /\ n = 1
    /\ rules_true = load_yara_rules(EntryA.yara_ruleset.should_be_true).rules
    /\ rules_false = load_yara_rules(EntryA.yara_ruleset.should_be_false).rules
    /\ total_from_proxy \in 0..MaxCount
    /\ fail_from_proxy \in 0..total_from_proxy
    /\ total_not_from_proxy \in 0..MaxCount
    /\ fail_not_from_proxy \in 0..total_not_from_proxy
    /\ fail = fail_from_proxy + fail_not_from_proxy
    /\ total = total_from_proxy + total_not_from_proxy
    /\ TP = 0 /\ FP = 0 /\ TN = 0 /\ FN = 0
    /\ precision = Zero /\ recall = Zero /\ f1_score = Zero
    /\ started = <<1>>
    /\ loaded = <<>>
    /\ scored = {}
    /\ printed = {}
    /\ reports = <<>>

NextMetrics == Finalize

SpecMetrics == InitMetrics /\ [][NextMetrics]_vars

\* x is a number: a fraction with a positive denominator
Defined(x) == x[2] > 0

\* x is the fraction a / b
IsFraction(x, a, b) == x[1] * b = a * x[2]

IsZero(x) == x[1] = 0

InUnitInterval(x) == 0 <= x[1] /\ x[1] <= x[2]

(***************************************************************************)
(* C4: for every finalized matrix, precision is TP/(TP+FP) when TP+FP > 0  *)
(* and 0 otherwise, recall is TP/(TP+FN) when TP+FN > 0 and 0 otherwise,   *)
(* f1 is 2*P*R/(P+R) when P+R > 0 and 0 otherwise, and each of the three   *)
(* is a number of [0,1], never undefined.                                  *)
(***************************************************************************)
C4_Metrics ==
    pc = "report" =>
       /\ TP >= 0 /\ FP >= 0 /\ TN >= 0 /\ FN >= 0
       /\ Defined(precision) /\ Defined(recall) /\ Defined(f1_score)
       /\ IF TP + FP > 0 THEN IsFraction(precision, TP, TP + FP) ELSE IsZero(precision)
       /\ IF TP + FN > 0 THEN IsFraction(recall, TP, TP + FN) ELSE IsZero(recall)
       /\ LET p == precision
              r == recall
          IN  IF p[1] * r[2] + r[1] * p[2] > 0       \* P + R > 0
              THEN IsFraction(f1_score, 2 * p[1] * r[1], p[1] * r[2] + r[1] * p[2])
              ELSE IsZero(f1_score)
       /\ InUnitInterval(precision)
       /\ InUnitInterval(recall)
       /\ InUnitInterval(f1_score)

\* a matrix whose three metrics are strictly between 0 and 1
C4_Witness ==
    /\ pc = "report"
    /\ TP = 2 /\ FP = 1 /\ FN = 1
    /\ IsFraction(precision, 2, 3)
    /\ IsFraction(recall, 2, 3)
    /\ IsFraction(f1_score, 2, 3)


(***************************************************************************)
(* What a run did for identity k.                                          *)
(***************************************************************************)
Started(k) == \E a \in DOMAIN started : started[a] = k

Reported(k) == \E a \in DOMAIN reports : reports[a].i = k

\* the run loaded a ruleset, scored a record or printed for identity k
Touched(k) ==
    \/ Started(k)
    \/ \E a \in DOMAIN loaded : loaded[a][1] = k
    \/ \E e \in scored : e.i = k
    \/ \E e \in printed : e.i = k
    \/ Reported(k)

\* two texts equal but for the case of their letters
SameIgnoringCase(a, b) ==
    /\ Len(a) = Len(b)
    /\ \A k \in DOMAIN a :
          \/ a[k] = b[k]
          \/ a[k] \in 65..90 /\ b[k] = a[k] + 32
          \/ b[k] \in 65..90 /\ a[k] = b[k] + 32

\* the loop over the identities has dealt with identity k
Passed(k) == k \in DOMAIN proxies /\ k < i

FilterRule ==
    \A k \in DOMAIN proxies :
       /\ Passed(k) => (Started(k) <=> SameIgnoringCase(proxies[k], specific_proxy))
       /\ Passed(k) => (Reported(k) <=> SameIgnoringCase(proxies[k], specific_proxy))
       /\ ~ SameIgnoringCase(proxies[k], specific_proxy) => ~ Touched(k)

(***************************************************************************)
(* C5 as written: when a proxy-name filter is given, an identity is        *)
(* processed if and only if its label equals the filter value ignoring     *)
(* case, and nothing is loaded, scored or reported for the others.         *)
(***************************************************************************)
C5_AsWritten == specific_proxy # None => FilterRule

(***************************************************************************)
(* C5, amended: the rule holds when the filter value is not empty; an      *)
(* empty value (proxy=) filters nothing, and every identity the loop       *)
(* reaches is processed.                                                   *)
(***************************************************************************)
C5_Filter ==
    /\ (specific_proxy # None /\ specific_proxy # <<>>) => FilterRule
    /\ specific_proxy = <<>> =>
          \A k \in DOMAIN proxies : Passed(k) => Reported(k)

\* filter "a": the identity "ab" was skipped, the identity "A" reported
C5_Witness ==
    /\ pc = "done"
    /\ specific_proxy = <<97>>
    /\ proxies = <<LabelAb, LabelA>>
    /\ started = <<2>>
    /\ Reported(2) /\ ~ Touched(1)
    /\ rows # <<>>

(***************************************************************************)
(* The report the specification expects of identity k.                     *)
(***************************************************************************)
AsExpected(r) ==
    LET last == Len(store.table)
        tp == ExpectedCount(r.i, last, FlagTP)
        fp == ExpectedCount(r.i, last, FlagFP)
        tn == ExpectedCount(r.i, last, FlagTN)
        fn == ExpectedCount(r.i, last, FlagFN)
    IN  /\ r.total = last
        /\ r.TP = tp /\ r.FP = fp /\ r.TN = tn /\ r.FN = fn
        /\ Defined(r.precision) /\ Defined(r.recall) /\ Defined(r.f1_score)
        /\ IF tp + fp > 0 THEN IsFraction(r.precision, tp, tp + fp)
           ELSE IsZero(r.precision)
        /\ IF tp + fn > 0 THEN IsFraction(r.recall, tp, tp + fn)
           ELSE IsZero(r.recall)
        /\ IF tp > 0 THEN IsFraction(r.f1_score, 2 * tp, 2 * tp + fp + fn)
           ELSE IsZero(r.f1_score)

\* A report enters reports as its last element, at the step that leaves
\* line 129 for the head of the loop, and never changes afterwards: what
\* holds of the last report in these states holds of every report.
JustReported == pc = "identity" /\ reports # <<>>

(***************************************************************************)
(* C6: identities are processed in configuration order, one at a time;     *)
(* the counters of a pass start at zero; the matrix and metrics reported   *)
(* for an identity are those of its own rulesets, its address and the      *)
(* stored records, whatever was processed or skipped before it.            *)
(***************************************************************************)
C6_Independent ==
    /\ \A a, b \in DOMAIN started : a < b => started[a] < started[b]
    /\ \A a, b \in DOMAIN reports : a < b => reports[a].i < reports[b].i
    /\ InPass => started[Len(started)] = i
    /\ (pc = "scan" /\ n = 1) =>
          /\ total = 0 /\ total_from_proxy = 0 /\ total_not_from_proxy = 0
          /\ fail = 0 /\ fail_from_proxy = 0 /\ fail_not_from_proxy = 0
    /\ JustReported => AsExpected(reports[Len(reports)])

\* two identities reported in order, the second after a first whose
\* counters were not zero, and with a different matrix
C6_Witness ==
    /\ pc = "done"
    /\ Len(reports) = 2
    /\ reports[1].i = 1 /\ reports[2].i = 2
    /\ reports[1].TP = 2
    /\ reports[2].FP = 2

(***************************************************************************)
(* C7 as written: a malformed configuration, an entry whose ruleset lacks  *)
(* should_be_true included, ends the run before any record is scanned or   *)
(* scored and before any report.                                           *)
(***************************************************************************)
Malformed ==
    \/ "proxies" \notin DOMAIN config
    \/ \E k \in DOMAIN config.proxies :
          \/ {"ip", "proxy", "yara_ruleset"} \ DOMAIN config.proxies[k] # {}
          \/ "should_be_true" \notin DOMAIN config.proxies[k].yara_ruleset

C7_AbortsBeforeScanning ==
    Malformed => (scored = {} /\ reports = <<>>)

(***************************************************************************)
(* C8: when a pattern source of a selected identity does not compile, the  *)
(* run ends at once with a non-zero status: no record is classified for    *)
(* that identity, and no later identity has a ruleset loaded, a record     *)
(* scanned or a report.                                                    *)
(***************************************************************************)
FailsToCompile(paths) == \E j \in DOMAIN paths : Compile(paths[j]).error # "none"

C8_CompileErrorAborts ==
    \A a \in DOMAIN started :
       LET k == started[a]
       IN  ( /\ "should_be_true" \in DOMAIN config.proxies[k].yara_ruleset
             /\ FailsToCompile(PositivePaths(k)) \/ FailsToCompile(NegativePaths(k)) )
           => /\ pc = "exited"
              /\ exit_status # 0 /\ exit_status # -1
              /\ error \in {"yara.SyntaxError", "yara.Error"}
              /\ a = Len(started)
              /\ ~ \E e \in scored : e.i = k
              /\ ~ Reported(k)
              /\ \A later \in DOMAIN proxies : later > k => ~ Touched(later)

\* the first of two identities has a file with a syntax error; no filter
\* would have skipped the second, and the table holds a payload
C8_Witness ==
    /\ error = "yara.SyntaxError"
    /\ started = <<1>>
    /\ Len(proxies) = 2
    /\ specific_proxy = None
    /\ "should_be_true" \in DOMAIN yara_rules_paths[2]
    /\ \E m \in DOMAIN rows : rows[m].headers = TextVia

(***************************************************************************)
(* C9 as written: with the category filter set to C, the only records      *)
(* printed during a pass are the records that fall into cell C.            *)
(***************************************************************************)
C9_AsWritten ==
    list_flag \in Flags =>
       \A e \in printed : ExpectedCell(e.i, e.row) = list_flag

(***************************************************************************)
(* C9, amended: the reports do not depend on the verbosity toggle or the   *)
(* category filter; the records the category filter prints are exactly     *)
(* those that fall into cell C; the verbosity toggle prints, whatever C    *)
(* is, the records that fall into TP, FP or FN, so the printed records are *)
(* those of cell C alone only when the toggle is off.                      *)
(***************************************************************************)
C9_Observational ==
    /\ JustReported => AsExpected(reports[Len(reports)])
    /\ \A e \in printed :
          /\ ~ EmptyOrAbsent(e.row)
          /\ e.cell = ExpectedCell(e.i, e.row)
          /\ e.by = "list" => e.cell = list_flag
          /\ e.by = "verbose" => verbose /\ e.cell \in {FlagTP, FlagFP, FlagFN}
    /\ (InPass /\ list_flag \in Flags) =>
          \A m \in RowsInCell(i, Counted, list_flag) :
              [by |-> "list", cell |-> list_flag, i |-> i, row |-> m] \in printed
    /\ (InPass /\ verbose) =>
          \A c \in {FlagTP, FlagFP, FlagFN} :
              \A m \in RowsInCell(i, Counted, c) :
                  [by |-> "verbose", cell |-> c, i |-> i, row |-> m] \in printed
    /\ (~ verbose /\ list_flag \in Flags) =>
          \A e \in printed : ExpectedCell(e.i, e.row) = list_flag

\* -v and flag=tp: the filter printed a TP record, the toggle an FN record
C9_Witness ==
    /\ verbose
    /\ list_flag = FlagTP
    /\ \E e \in printed : e.by = "list" /\ e.cell = FlagTP
    /\ \E e \in printed : e.by = "verbose" /\ e.cell = FlagFN

(***************************************************************************)
(* C10 as written: with a well-formed configuration, rulesets that compile *)
(* and a readable store of any finite number of records, the run never     *)
(* fails, and when it is done every selected identity has its report.      *)
(***************************************************************************)
WellFormed == ~ Malformed

Compilable ==
    \A k \in DOMAIN config.proxies :
        ~ FailsToCompile(PositivePaths(k)) /\ ~ FailsToCompile(NegativePaths(k))

C10_ReachesDone ==
    (WellFormed /\ Compilable /\ store.readable) =>
       /\ pc # "exited"
       /\ error = "none"
       /\ pc = "done" =>
             \A k \in DOMAIN proxies :
                 ~ Skips(proxies[k], specific_proxy) => Reported(k)

=============================================================================
